---- MODULE Spec2Model ----
(***************************************************************************)
(* A model of the Alepha utility headers: the exception grades of          *)
(* Exception.h (the class lattice, dynamic_cast, virtual dispatch and      *)
(* build_exception), Violation's life cycle, parseRange of                 *)
(* string_algorithms.h, TableTest::Cases::operator(), and the console's    *)
(* color preference and terminal mode stack.                               *)
(*                                                                         *)
(* Classes are tuples <<form, name, tag, role>>:                           *)
(*   form  "class" (a namespace-scope class), "any" (name::any_tagged_type)*)
(*         or "tagged" (name::tagged_type< tag >);                         *)
(*   tag   1..MaxTags for a tagged_type, 0 otherwise;                      *)
(*   role  "" for the class itself, or the local class of build_exception  *)
(*         ("Undergird", "Error", "Thrown") instantiated with that class   *)
(*         as Kind.                                                        *)
(* `bases< B... >` only forwards `virtual public B...`, so an edge through *)
(* it is written as a direct public edge.  Every inheritance edge of the   *)
(* header is virtual, so a class occurs at most once in an object.         *)
(* The lattice is modelled at type level: build_exception is applied to    *)
(* every Kind of the header, also those whose instantiation a compiler     *)
(* rejects (an abstract local class, or a virtual base without a default   *)
(* constructor).                                                           *)
(***************************************************************************)
EXTENDS Integers, Sequences, FiniteSets, TLC

VARIABLES obj, last, viols, aborted, input, rv, tests, function, version, idx, failureCount, out, calls, pc,
          colorState, disableColorsEnv, stdoutIsTty, colorVariables, os, sent,
          mode, modeStack, termios, called, unpopped

vars == <<obj, last, viols, aborted, input, rv, tests, function, version, idx, failureCount, out, calls, pc,
          colorState, disableColorsEnv, stdoutIsTty, colorVariables, os, sent,
          mode, modeStack, termios, called, unpopped>>
excVars == <<obj, last>>
violVars == <<viols, aborted>>
rangeVars == <<input, rv>>
tableVars == <<tests, function, version, idx, failureCount, out, calls>>
colorVars == <<colorState, disableColorsEnv, stdoutIsTty, colorVariables, os, sent>>
termVars == <<mode, modeStack, termios, called, unpopped>>

MaxTags == 2
MaxMessages == 2

Tags == 1..MaxTags
Messages == 1..MaxMessages

----------------------------------------------------------------------------
(* Class names *)

Cls(n) == <<"class", n, 0, "">>
AnyT(n) == <<"any", n, 0, "">>
TaggedT(n, t) == <<"tagged", n, t, "">>
Local(k, role) == <<k[1], k[2], k[3], role>>
KindOf(c) == <<c[1], c[2], c[3], "">>

GradeNames == {"Condition", "Notification", "Error", "CriticalError", "Violation"}

(* synthetic_exception< handle, GradeType, Bases... > instantiations of the *)
(* header.  The aliased ones carry the alias; the ones that only occur as   *)
(* the base of a wrapper class are named syn<...>.                          *)
Syn ==
  [ n \in { "syn<named_resource_throwable,Exception>", "NamedResourceNotification",
            "NamedResourceError", "NamedResourceCriticalError", "NamedResourceViolation",
            "syn<out_of_range_throwable,Exception>", "OutOfRangeError",
            "OutOfRangeCriticalError", "OutOfRangeViolation",
            "syn<index_out_of_range_throwable,Exception,OutOfRangeException>",
            "syn<index_out_of_range_throwable,OutOfRangeError,IndexOutOfRangeException>",
            "syn<index_out_of_range_throwable,OutOfRangeCriticalError,IndexOutOfRangeException>",
            "syn<index_out_of_range_throwable,OutOfRangeViolation,IndexOutOfRangeException>",
            "syn<allocation_throwable,Exception>", "AllocationError",
            "AllocationCriticalError", "AllocationViolation",
            "FinishedException", "FinishedCondition" } |->
    CASE n = "syn<named_resource_throwable,Exception>" -> [grade |-> "Exception", bases |-> << >>]
      [] n = "NamedResourceNotification" -> [grade |-> "Notification", bases |-> <<"NamedResourceException">>]
      [] n = "NamedResourceError" -> [grade |-> "Error", bases |-> <<"NamedResourceException">>]
      [] n = "NamedResourceCriticalError" -> [grade |-> "CriticalError", bases |-> <<"NamedResourceException">>]
      [] n = "NamedResourceViolation" -> [grade |-> "Violation", bases |-> <<"NamedResourceException">>]
      [] n = "syn<out_of_range_throwable,Exception>" -> [grade |-> "Exception", bases |-> << >>]
      [] n = "OutOfRangeError" -> [grade |-> "Error", bases |-> <<"OutOfRangeException">>]
      [] n = "OutOfRangeCriticalError" -> [grade |-> "CriticalError", bases |-> <<"OutOfRangeException">>]
      [] n = "OutOfRangeViolation" -> [grade |-> "Violation", bases |-> <<"OutOfRangeException">>]
      [] n = "syn<index_out_of_range_throwable,Exception,OutOfRangeException>" ->
           [grade |-> "Exception", bases |-> <<"OutOfRangeException">>]
      [] n = "syn<index_out_of_range_throwable,OutOfRangeError,IndexOutOfRangeException>" ->
           [grade |-> "OutOfRangeError", bases |-> <<"IndexOutOfRangeException">>]
      [] n = "syn<index_out_of_range_throwable,OutOfRangeCriticalError,IndexOutOfRangeException>" ->
           [grade |-> "OutOfRangeCriticalError", bases |-> <<"IndexOutOfRangeException">>]
      [] n = "syn<index_out_of_range_throwable,OutOfRangeViolation,IndexOutOfRangeException>" ->
           [grade |-> "OutOfRangeViolation", bases |-> <<"IndexOutOfRangeException">>]
      [] n = "syn<allocation_throwable,Exception>" -> [grade |-> "Exception", bases |-> << >>]
      [] n = "AllocationError" -> [grade |-> "Error", bases |-> <<"AllocationException">>]
      [] n = "AllocationCriticalError" -> [grade |-> "CriticalError", bases |-> <<"AllocationException">>]
      [] n = "AllocationViolation" -> [grade |-> "Violation", bases |-> <<"AllocationException">>]
      [] n = "FinishedException" -> [grade |-> "Exception", bases |-> << >>]
      [] n = "FinishedCondition" -> [grade |-> "Condition", bases |-> <<"FinishedException">>] ]

SynNames == DOMAIN Syn

(* The classes that wrap a synthetic_exception: the synthetic base, and the *)
(* interface the wrapper adds ("" for none).                                *)
Wrapper ==
  [ n \in { "NamedResourceException", "OutOfRangeException", "IndexOutOfRangeException",
            "IndexOutOfRangeError", "IndexOutOfRangeCriticalError",
            "IndexOutOfRangeViolation", "AllocationException" } |->
    CASE n = "NamedResourceException" ->
           [syn |-> "syn<named_resource_throwable,Exception>", iface |-> "NamedResourceInterface"]
      [] n = "OutOfRangeException" ->
           [syn |-> "syn<out_of_range_throwable,Exception>", iface |-> ""]
      [] n = "IndexOutOfRangeException" ->
           [syn |-> "syn<index_out_of_range_throwable,Exception,OutOfRangeException>", iface |-> ""]
      [] n = "IndexOutOfRangeError" ->
           [syn |-> "syn<index_out_of_range_throwable,OutOfRangeError,IndexOutOfRangeException>", iface |-> ""]
      [] n = "IndexOutOfRangeCriticalError" ->
           [syn |-> "syn<index_out_of_range_throwable,OutOfRangeCriticalError,IndexOutOfRangeException>", iface |-> ""]
      [] n = "IndexOutOfRangeViolation" ->
           [syn |-> "syn<index_out_of_range_throwable,OutOfRangeViolation,IndexOutOfRangeException>", iface |-> ""]
      [] n = "AllocationException" ->
           [syn |-> "syn<allocation_throwable,Exception>", iface |-> "AllocationAmountInterface"] ]

WrapperNames == DOMAIN Wrapper

(* The class whose member any_tagged_type / tagged_type the name n::... *)
(* finds: a wrapper inherits the member types of its synthetic base.    *)
Owner(n) == IF n \in WrapperNames THEN Wrapper[n].syn ELSE n

----------------------------------------------------------------------------
(* Direct bases: sets of <<class, access>>. *)

Pub(S) == {<<c, "public">> : c \in S}
SeqSet(q) == {q[i] : i \in DOMAIN q}

(* class Exception::any_tagged_type : virtual public grade_type *)
ExceptionAnyBases == Pub({Cls("Exception")})

(* class Exception::tagged_type : virtual public grade_type, *)
(*                                virtual public grade_type::any_tagged_type *)
ExceptionTaggedBases(t) == Pub({Cls("Exception"), AnyT("Exception")})

(* A faulty variant: CriticalError derived from Error, an ordinal grade. *)
GradeClassBases_Ordinal(g) ==
  IF g = "Error"
  THEN Pub({Cls("Exception")}) \cup {<<Cls("ErrorBridgeInterface"), "private">>}
  ELSE IF g = "CriticalError" THEN Pub({Cls("Exception"), Cls("Error")})
  ELSE Pub({Cls("Exception")})

(* class Condition, Notification, Error, CriticalError, Violation *)
GradeClassBases(g) ==
  IF g = "Error"
  THEN Pub({Cls("Exception")}) \cup {<<Cls("ErrorBridgeInterface"), "private">>}
  ELSE Pub({Cls("Exception")})

(* class G::any_tagged_type : bases< grade_type, Exception::any_tagged_type > *)
GradeAnyBases(g) == Pub({Cls(g), AnyT("Exception")})

(* A faulty variant: the tagged grade forgets Exception::tagged_type< tag >. *)
GradeTaggedBases_NoTag(g, t) == Pub({AnyT(g), AnyT("Exception")})

(* class G::tagged_type : bases< grade_type::any_tagged_type, Exception::tagged_type< tag > > *)
GradeTaggedBases(g, t) == Pub({AnyT(g), TaggedT("Exception", t)})

(* A faulty variant: synthetic_exception without its GradeType base. *)
SynClassBases_NoGrade(n) == Pub({Cls(b) : b \in SeqSet(Syn[n].bases)})

(* class synthetic_exception : virtual public bases< GradeType, Bases... > *)
SynClassBases(n) == Pub({Cls(Syn[n].grade)} \cup {Cls(b) : b \in SeqSet(Syn[n].bases)})

(* class synthetic_exception::any_tagged_type *)
SynAnyBases(n) ==
  Pub({Cls(n), AnyT(Owner(Syn[n].grade))} \cup {AnyT(Owner(b)) : b \in SeqSet(Syn[n].bases)})

(* A faulty variant: the tagged synthetic type forgets Bases::tagged_type< tag >. *)
SynTaggedBases_NoBaseTags(n, t) == Pub({Cls(n), AnyT(n), TaggedT(Owner(Syn[n].grade), t)})

(* class synthetic_exception::tagged_type< tag > *)
SynTaggedBases(n, t) ==
  Pub({Cls(n), AnyT(n), TaggedT(Owner(Syn[n].grade), t)}
      \cup {TaggedT(Owner(b), t) : b \in SeqSet(Syn[n].bases)})

(* class NamedResourceException, OutOfRangeException, IndexOutOfRange..., *)
(* AllocationException                                                    *)
WrapperBases(n) ==
  Pub({Cls(Wrapper[n].syn)} \cup (IF Wrapper[n].iface = "" THEN {} ELSE {Cls(Wrapper[n].iface)}))

(* The storage and bridge classes, and the standard exceptions they name. *)
SupportNames ==
  { "ErrorBridgeInterface", "NamedResourceInterface", "NamedResourceStorage",
    "IndexedRangeInformationInterface", "IndexedRangeInformationStorage",
    "AllocationAmountInterface", "AllocationAmountStorage", "MessageStorage",
    "GenericExceptionBridge<std::exception>", "GenericExceptionBridge<std::bad_alloc>",
    "GenericExceptionBridge<std::out_of_range>",
    "std::exception", "std::bad_alloc", "std::logic_error", "std::out_of_range" }

StdOf(bridge) ==
  CASE bridge = "GenericExceptionBridge<std::exception>" -> "std::exception"
    [] bridge = "GenericExceptionBridge<std::bad_alloc>" -> "std::bad_alloc"
    [] bridge = "GenericExceptionBridge<std::out_of_range>" -> "std::out_of_range"

BridgeNames ==
  { "GenericExceptionBridge<std::exception>", "GenericExceptionBridge<std::bad_alloc>",
    "GenericExceptionBridge<std::out_of_range>" }

SupportBases(n) ==
  CASE n = "NamedResourceStorage" -> Pub({Cls("NamedResourceInterface")})
    [] n = "IndexedRangeInformationStorage" -> Pub({Cls("IndexedRangeInformationInterface")})
    [] n = "AllocationAmountStorage" -> Pub({Cls("AllocationAmountInterface")})
    [] n = "MessageStorage" -> Pub({Cls("Exception")})
    [] n \in BridgeNames -> Pub({Cls(StdOf(n)), Cls("ErrorBridgeInterface"), Cls("Exception")})
    [] n = "std::bad_alloc" -> Pub({Cls("std::exception")})
    [] n = "std::logic_error" -> Pub({Cls("std::exception")})
    [] n = "std::out_of_range" -> Pub({Cls("std::logic_error")})
    [] OTHER -> {}

(* The direct bases of a class of the header (role ""). *)
KindBases(c) ==
  LET form == c[1]
      n == c[2]
      t == c[3]
  IN  CASE form = "class" /\ n = "Exception" -> {}
        [] form = "any" /\ n = "Exception" -> ExceptionAnyBases
        [] form = "tagged" /\ n = "Exception" -> ExceptionTaggedBases(t)
        [] form = "class" /\ n \in GradeNames -> GradeClassBases(n)
        [] form = "any" /\ n \in GradeNames -> GradeAnyBases(n)
        [] form = "tagged" /\ n \in GradeNames -> GradeTaggedBases(n, t)
        [] form = "class" /\ n \in SynNames -> SynClassBases(n)
        [] form = "any" /\ n \in SynNames -> SynAnyBases(n)
        [] form = "tagged" /\ n \in SynNames -> SynTaggedBases(n, t)
        [] form = "class" /\ n \in WrapperNames -> WrapperBases(n)
        [] form = "class" /\ n \in SupportNames -> SupportBases(n)

RECURSIVE KindClosure(_)
KindClosure(S) ==
  UNION { IF N = S THEN S ELSE KindClosure(N) :
            N \in {S \cup UNION {{e[1] : e \in KindBases(c)} : c \in S}} }

(* std::is_base_of_v< B, D >: B is D or a base of D, whatever the access. *)
is_base_of(B, D) == B \in KindClosure({D})

(* The constexpr chain of build_exception picks the local classes. *)
Branch(k) ==
  IF is_base_of(Cls("AllocationError"), k) THEN "alloc"
  ELSE IF is_base_of(Cls("IndexOutOfRangeError"), k) THEN "index"
  ELSE IF is_base_of(Cls("Error"), k) THEN "error"
  ELSE "thrown"

BranchStd(br) ==
  CASE br = "alloc" -> "std::bad_alloc"
    [] br = "index" -> "std::out_of_range"
    [] br = "error" -> "std::exception"

BranchBridge(br) ==
  CASE br = "alloc" -> "GenericExceptionBridge<std::bad_alloc>"
    [] br = "index" -> "GenericExceptionBridge<std::out_of_range>"
    [] br = "error" -> "GenericExceptionBridge<std::exception>"

BranchStorage(br) ==
  CASE br = "alloc" -> {Cls("AllocationAmountStorage")}
    [] br = "index" -> {Cls("IndexedRangeInformationStorage")}
    [] br = "error" -> {}

(* class Undergird of the three Error branches *)
UndergirdBases(k) ==
  LET br == Branch(k)
  IN  {<<k, "public">>, <<Cls(BranchStd(br)), "public">>}
        \cup {<<c, "protected">> : c \in {Cls(BranchBridge(br)), Cls("MessageStorage")} \cup BranchStorage(br)}

(* class Error of the three Error branches *)
BuiltErrorBases(k) ==
  {<<Local(k, "Undergird"), "private">>, <<k, "public">>, <<Cls(BranchStd(Branch(k))), "public">>}

(* class Thrown of the last branch *)
ThrownBases(k) == {<<k, "public">>, <<Cls("MessageStorage"), "private">>}

DirectBases(c) ==
  CASE c[4] = "" -> KindBases(c)
    [] c[4] = "Undergird" -> UndergirdBases(KindOf(c))
    [] c[4] = "Error" -> BuiltErrorBases(KindOf(c))
    [] c[4] = "Thrown" -> ThrownBases(KindOf(c))

(* The type of the object build_exception< k > returns. *)
MostDerived(k) == IF Branch(k) = "thrown" THEN Local(k, "Thrown") ELSE Local(k, "Error")

RECURSIVE Reach(_, _)
Reach(S, publicOnly) ==
  UNION { IF N = S THEN S ELSE Reach(N, publicOnly) :
            N \in {S \cup UNION {{e[1] : e \in {d \in DirectBases(c) : publicOnly => d[2] = "public"}}
                                     : c \in S}} }

(* The class and its bases; and those reached along public edges only (a   *)
(* virtual base has the access of its most accessible path).               *)
AllBases(c) == Reach({c}, FALSE)
PublicBases(c) == Reach({c}, TRUE)

----------------------------------------------------------------------------
(* The Kinds of the header, and the types a handler can name. *)

GradedNames == {"Exception"} \cup GradeNames \cup SynNames

Kinds ==
  {Cls(n) : n \in GradedNames \cup WrapperNames}
    \cup {AnyT(n) : n \in GradedNames}
    \cup {TaggedT(n, t) : n \in GradedNames, t \in Tags}

Targets == Kinds \cup {Cls(n) : n \in SupportNames}

(* grade_type: a synthetic_exception takes it from its GradeType argument, *)
(* a wrapper from its synthetic base; followed down to a grade class.      *)
RECURSIVE DeclaredGrade(_)
DeclaredGrade(n) ==
  IF n \in SynNames THEN DeclaredGrade(Syn[n].grade)
  ELSE IF n \in WrapperNames THEN DeclaredGrade(Wrapper[n].syn)
  ELSE n

(* The most derived types and the closures, computed once per class. *)
MostDerivedOf == [k \in Kinds |-> MostDerived(k)]
AllBasesOf == [c \in Targets \cup {MostDerivedOf[k] : k \in Kinds} |-> AllBases(c)]
PublicBasesOf == [c \in Targets \cup {MostDerivedOf[k] : k \in Kinds} |-> PublicBases(c)]

(* Exception::is_a< Target >: dynamic_cast< const Target * >( this ), with  *)
(* `this` the Exception subobject of an object of most derived type md.    *)
(* The cast finds T when the Exception subobject is a public base of the   *)
(* T object, or when both are public bases of the most derived object.     *)
is_a(md, T) ==
  \/ T \in AllBasesOf[md] /\ Cls("Exception") \in PublicBasesOf[T]
  \/ Cls("Exception") \in PublicBasesOf[md] /\ T \in PublicBasesOf[md]

(* A handler `catch( const T & )` matches an object of type md when T is   *)
(* md or a public base of it (every base is virtual, so unambiguous).      *)
CatchableAs(md, T) == T \in PublicBasesOf[md]

----------------------------------------------------------------------------
(* Virtual functions: who declares them, and the final overrider. *)

NoText == <<"", 0>>
Pure == <<"pure virtual", 0>>
IllFormed == <<"no unique final overrider", 0>>

Declares(c, fn) ==
  CASE fn = "message" -> c \in {Cls("Exception"), Cls("MessageStorage")}
    [] fn = "what" -> c \in {Cls("ErrorBridgeInterface"), Cls("std::exception"), Cls("std::bad_alloc"),
                             Cls("std::logic_error")} \cup {Cls(b) : b \in BridgeNames}
    [] fn = "tag" -> c = AnyT("Exception") \/ (c[1] = "tagged" /\ c[2] = "Exception" /\ c[4] = "")

FinalOverriders(md, fn) ==
  LET D == {c \in AllBasesOf[md] : Declares(c, fn)}
  IN  {c \in D : \A d \in D \ {c} : c \notin AllBasesOf[d]}

(* MessageStorage::message() returns storage.c_str() *)
MessageStorage_message(o) == <<"text", o.msg>>

(* Exception::tagged_type< Tag >::tag() returns typeid( std::type_identity< Tag > ) *)
tagged_type_tag(t) == <<"type_identity", t>>

message(md, o) ==
  LET F == FinalOverriders(md, "message")
  IN  IF Cardinality(F) # 1 THEN IllFormed
      ELSE IF F = {Cls("MessageStorage")} THEN MessageStorage_message(o)
      ELSE Pure

(* A faulty variant: the bridge leaves what() to the standard exception. *)
GenericExceptionBridge_what_Std(md, o) == <<"std::exception", 0>>

(* GenericExceptionBridge::what() returns message() *)
GenericExceptionBridge_what(md, o) == message(md, o)

what(md, o) ==
  LET F == FinalOverriders(md, "what")
  IN  IF Cardinality(F) # 1 THEN IllFormed
      ELSE LET c == CHOOSE c \in F : TRUE
           IN  CASE c[2] \in BridgeNames -> GenericExceptionBridge_what(md, o)
                 [] c = Cls("ErrorBridgeInterface") -> Pure
                 [] OTHER -> <<c[2], 0>>

tag(md) ==
  LET F == FinalOverriders(md, "tag")
  IN  IF Cardinality(F) # 1 THEN IllFormed
      ELSE LET c == CHOOSE c \in F : TRUE
           IN  IF c = AnyT("Exception") THEN Pure ELSE tagged_type_tag(c[3])

----------------------------------------------------------------------------
(* The exception machine: an object is built, a handler asks it one thing, *)
(* the answer is taken, and so on until the object is released.            *)

NoClass == <<"", "", 0, "">>
NoObj == [kind |-> NoClass, msg |-> 0]
Answer(op, target, result, text) == [op |-> op, target |-> target, result |-> result, text |-> text]
Idle == Answer("idle", NoClass, FALSE, NoText)
Built == Answer("build", NoClass, TRUE, NoText)

MD == MostDerivedOf[obj.kind]

(* Each machine of the module runs alone; the others stay as constructed. *)
ExcIdle == obj = NoObj /\ last = Idle
ViolIdle == viols = << >> /\ aborted = FALSE
RangeIdle == input = << >> /\ rv = << >>
TableIdle ==
  /\ tests = << >> /\ function = << >> /\ version = ""
  /\ idx = 0 /\ failureCount = 0 /\ out = << >> /\ calls = << >>

ColorIdle ==
  /\ colorState = "" /\ disableColorsEnv = FALSE /\ stdoutIsTty = FALSE
  /\ colorVariables = << >> /\ os = << >> /\ sent = << >>
TermIdle ==
  /\ mode = "cooked" /\ modeStack = << >> /\ termios = << >>
  /\ called = << >> /\ unpopped = << >>
ConsoleIdle == ColorIdle /\ TermIdle

ExcRestUnchanged == UNCHANGED <<violVars, rangeVars, tableVars, pc, colorVars, termVars>>

InitExc == ExcIdle /\ ViolIdle /\ RangeIdle /\ TableIdle /\ ConsoleIdle /\ pc = "off"

(* build_exception< Kind >( message ) *)
build_exception(k, m) ==
  /\ obj = NoObj
  /\ obj' = [kind |-> k, msg |-> m]
  /\ last' = Built
  /\ ExcRestUnchanged

Probing == obj # NoObj /\ last = Built

(* e.is_a< T >() on the Exception subobject *)
IsA(T) ==
  /\ Probing
  /\ CatchableAs(MD, Cls("Exception"))
  /\ last' = Answer("is_a", T, is_a(MD, T), NoText)
  /\ UNCHANGED obj /\ ExcRestUnchanged

(* throw; does a handler for T take it? *)
Catch(T) ==
  /\ Probing
  /\ last' = Answer("catch", T, CatchableAs(MD, T), NoText)
  /\ UNCHANGED obj /\ ExcRestUnchanged

(* e.message() *)
Message ==
  /\ Probing
  /\ CatchableAs(MD, Cls("Exception"))
  /\ last' = Answer("message", NoClass, TRUE, message(MD, obj))
  /\ UNCHANGED obj /\ ExcRestUnchanged

(* e.what(), through Error or through the standard base *)
What ==
  /\ Probing
  /\ CatchableAs(MD, Cls("Error")) \/ CatchableAs(MD, Cls("std::exception"))
  /\ last' = Answer("what", NoClass, TRUE, what(MD, obj))
  /\ UNCHANGED obj /\ ExcRestUnchanged

(* e.tag(), through any_tagged_type *)
Tag ==
  /\ Probing
  /\ CatchableAs(MD, AnyT("Exception"))
  /\ last' = Answer("tag", NoClass, TRUE, tag(MD))
  /\ UNCHANGED obj /\ ExcRestUnchanged

(* The handler is done with the answer. *)
Resume ==
  /\ obj # NoObj /\ last # Built
  /\ last' = Built
  /\ UNCHANGED obj /\ ExcRestUnchanged

(* The exception object goes away. *)
Release ==
  /\ obj # NoObj
  /\ obj' = NoObj /\ last' = Idle
  /\ ExcRestUnchanged

NextExc ==
  \/ \E k \in Kinds, m \in Messages : build_exception(k, m)
  \/ \E T \in Targets : IsA(T)
  \/ \E T \in Targets : Catch(T)
  \/ Message
  \/ What
  \/ Tag
  \/ Resume
  \/ Release

Spec == InitExc /\ [][NextExc]_vars

----------------------------------------------------------------------------
(* Claims about the exception grades. *)

BaseGrades == {"Exception"} \cup GradeNames
Asked(op, T) == obj # NoObj /\ last.op = op /\ last.target = T
Tested(T) == Asked("is_a", T) \/ Asked("catch", T)
ObjGrade == DeclaredGrade(obj.kind[2])

(* C1: grade and tag are independent axes.  An object whose type derives   *)
(* from Tagged< G, t >, for any of the six base grades G and any tag t,    *)
(* answers is_a< G > and is_a< AnyTagged< G > > with true, answers         *)
(* is_a< TaggedException< u > > with true exactly when u = t, and its      *)
(* tag() is the identity of t.                                             *)
C1_GradeAndTagIndependent ==
  \A G \in BaseGrades, t \in Tags :
    (obj # NoObj /\ TaggedT(G, t) \in AllBasesOf[obj.kind]) =>
      /\ (Asked("is_a", Cls(G)) \/ Asked("is_a", AnyT(G))) => last.result
      /\ \A u \in Tags : Asked("is_a", TaggedT("Exception", u)) => (last.result <=> u = t)
      /\ last.op = "tag" => last.text = <<"type_identity", t>>

C1_Witness ==
  /\ obj.kind = TaggedT("FinishedCondition", 2)
  /\ Asked("is_a", TaggedT("Exception", 2))
  /\ last.result

(* C2 as stated: the grade is ordinal; the Error test (is_a< Error > or a  *)
(* handler for Error) succeeds for every object of grade Error,            *)
(* CriticalError or Violation and fails for every object of grade          *)
(* Condition or Notification.                                              *)
C2_ErrorTestOrdinal ==
  Tested(Cls("Error")) =>
    /\ ObjGrade \in {"Error", "CriticalError", "Violation"} => last.result
    /\ ObjGrade \in {"Condition", "Notification"} => ~last.result

(* C2 amended: the grades are not ordinal; the Error test succeeds for     *)
(* every object of grade Error and fails for every object of grade         *)
(* Condition, Notification, CriticalError or Violation.                    *)
C2_ErrorTestExact ==
  Tested(Cls("Error")) =>
    /\ ObjGrade = "Error" => last.result
    /\ ObjGrade \in {"Condition", "Notification", "CriticalError", "Violation"} => ~last.result

C2_Witness ==
  /\ obj.kind = TaggedT("OutOfRangeCriticalError", 1)
  /\ Asked("is_a", Cls("Error"))
  /\ ~last.result

(* C3: every object build_exception returns, whatever the Kind, answers    *)
(* is_a< Exception > with true and is caught by a handler for Exception.   *)
C3_AllInheritException == Tested(Cls("Exception")) => last.result

C3_Witness ==
  /\ obj.kind = TaggedT("syn<allocation_throwable,Exception>", 1)
  /\ Asked("catch", Cls("Exception"))
  /\ last.result

(* C4: for every Kind derived from Error and every message m, the object   *)
(* build_exception< Kind >( m ) returns is caught by a handler for         *)
(* std::exception, and its what() and its message() both return m.         *)
C4_ErrorHasStdException ==
  (obj # NoObj /\ Cls("Error") \in AllBasesOf[obj.kind]) =>
    /\ Asked("catch", Cls("std::exception")) => last.result
    /\ last.op \in {"what", "message"} => last.text = <<"text", obj.msg>>

C4_Witness ==
  /\ obj = [kind |-> TaggedT("AllocationError", 1), msg |-> 2]
  /\ last.op = "what"
  /\ last.text = <<"text", 2>>

(* C5: an Error that models something of the standard library is caught by *)
(* that standard base: std::bad_alloc catches every Kind derived from      *)
(* AllocationError, std::out_of_range every out-of-range Error Kind        *)
(* (OutOfRangeError and IndexOutOfRangeError, tagged or not).              *)
C5_StandardBaseCatches ==
  /\ (Asked("catch", Cls("std::bad_alloc")) /\ Cls("AllocationError") \in AllBasesOf[obj.kind])
       => last.result
  /\ (Asked("catch", Cls("std::out_of_range")) /\ Cls("OutOfRangeError") \in AllBasesOf[obj.kind])
       => last.result

(* C7: the grades are separate.  An object built for one of the grades     *)
(* Condition, Notification, Error, CriticalError, Violation answers        *)
(* is_a< G' > with false for every other grade G' of the five.             *)
C7_GradesSeparate ==
  \A g \in GradeNames :
    (Tested(Cls(g)) /\ ObjGrade \in GradeNames \ {g}) => ~last.result

C7_Witness ==
  /\ obj.kind = Cls("Condition")
  /\ Asked("is_a", Cls("Violation"))
  /\ ~last.result

(* C8: a synthetic exception composes along both axes.  For every          *)
(* S = synthetic_exception< h, G, B... > and tag t, an object of S is a G  *)
(* and a B for each B; an object of S::tagged_type< t > is also an S, an   *)
(* S::any_tagged_type, a G::tagged_type< t > and a B::tagged_type< t >.    *)
C8_SyntheticComposes ==
  \A S \in SynNames :
    LET Plain == {Cls(Syn[S].grade)} \cup {Cls(b) : b \in SeqSet(Syn[S].bases)}
        TaggedOnes(t) == {Cls(S), AnyT(S), TaggedT(Owner(Syn[S].grade), t)}
                           \cup {TaggedT(Owner(b), t) : b \in SeqSet(Syn[S].bases)}
    IN  /\ (obj # NoObj /\ obj.kind = Cls(S) /\ last.op = "is_a" /\ last.target \in Plain)
             => last.result
        /\ \A t \in Tags :
             (obj # NoObj /\ obj.kind = TaggedT(S, t) /\ last.op = "is_a"
                /\ last.target \in Plain \cup TaggedOnes(t))
               => last.result

C8_Witness ==
  /\ obj.kind = TaggedT("NamedResourceError", 1)
  /\ Asked("is_a", TaggedT("syn<named_resource_throwable,Exception>", 1))
  /\ last.result

----------------------------------------------------------------------------
(* Violation's life cycle: the member `active`, the copy constructor and   *)
(* the destructor.  A slot of viols is one Violation object; once abort()  *)
(* is called the process is gone and nothing more happens.                 *)

MaxViolations == 3

Unborn == [state |-> "unborn", active |-> FALSE, how |-> "", copiedFrom |-> FALSE]

ViolRestUnchanged == UNCHANGED <<excVars, rangeVars, tableVars, pc, colorVars, termVars>>

InitViolation ==
  /\ viols = [i \in 1..MaxViolations |-> Unborn]
  /\ aborted = FALSE
  /\ ExcIdle /\ RangeIdle /\ TableIdle /\ ConsoleIdle /\ pc = "off"

(* bool active= true; *)
Violation_construct(i) ==
  /\ ~aborted
  /\ viols[i].state = "unborn"
  /\ viols' = [viols EXCEPT ![i] = [state |-> "alive", active |-> TRUE, how |-> "fresh",
                                    copiedFrom |-> FALSE]]
  /\ UNCHANGED aborted /\ ViolRestUnchanged

(* Violation( Violation &copy ) : active( copy.active ) { copy.active= false; } *)
Violation_copy(dst, src) ==
  /\ ~aborted
  /\ dst # src
  /\ viols[dst].state = "unborn"
  /\ viols[src].state = "alive"
  /\ viols' = [viols EXCEPT ![dst] = [state |-> "alive", active |-> viols[src].active,
                                      how |-> "copy", copiedFrom |-> FALSE],
                            ![src] = [@ EXCEPT !.active = FALSE, !.copiedFrom = TRUE]]
  /\ UNCHANGED aborted /\ ViolRestUnchanged

(* ~Violation() override { if( not active ) abort(); } *)
Violation_destroy(i) ==
  /\ ~aborted
  /\ viols[i].state = "alive"
  /\ viols' = [viols EXCEPT ![i].state = "destroyed"]
  /\ aborted' = ~viols[i].active
  /\ ViolRestUnchanged

NextViolation ==
  \/ \E i \in 1..MaxViolations : Violation_construct(i)
  \/ \E dst, src \in 1..MaxViolations : Violation_copy(dst, src)
  \/ \E i \in 1..MaxViolations : Violation_destroy(i)

SpecViolation == InitViolation /\ [][NextViolation]_vars

(* C6: destroying an object of the Violation grade calls abort(), whatever *)
(* its state: freshly constructed, copied to, or copied from.              *)
C6_DestroyAborts == \A i \in 1..MaxViolations : viols[i].state = "destroyed" => aborted

----------------------------------------------------------------------------
(* parseRange< T >.  A string is a sequence of one-character strings.      *)

MaxValue == 12

DigitChars == <<"0", "1", "2", "3", "4", "5", "6", "7", "8", "9">>
IsDigit(ch) == \E i \in DOMAIN DigitChars : DigitChars[i] = ch
DigitValue(ch) == (CHOOSE i \in DOMAIN DigitChars : DigitChars[i] = ch) - 1

(* The decimal text of an integer, as a caller writes it. *)
RECURSIVE Decimal(_)
Decimal(n) ==
  IF n < 0 THEN <<"-">> \o Decimal(-n)
  ELSE IF n < 10 THEN <<DigitChars[n + 1]>>
  ELSE Decimal(n \div 10) \o <<DigitChars[(n % 10) + 1]>>

(* split( s, token ): the pieces of s between the tokens, empty ones kept. *)
RECURSIVE split(_, _)
split(s, token) ==
  IF \A i \in DOMAIN s : s[i] # token THEN <<s>>
  ELSE LET i == CHOOSE i \in DOMAIN s : s[i] = token /\ \A j \in 1..(i - 1) : s[j] # token
       IN  <<SubSeq(s, 1, i - 1)>> \o split(SubSeq(s, i + 1, Len(s)), token)

(* boost::lexical_cast< T >( s ) for an integral T: an optional sign and   *)
(* then digits only, at least one; anything else throws bad_lexical_cast.  *)
RECURSIVE DigitsValue(_)
DigitsValue(s) ==
  IF s = << >> THEN 0 ELSE 10 * DigitsValue(SubSeq(s, 1, Len(s) - 1)) + DigitValue(s[Len(s)])

lexical_cast(s) ==
  LET body == IF s # << >> /\ s[1] = "-" THEN Tail(s) ELSE s
  IN  IF body = << >> \/ \E i \in DOMAIN body : ~IsDigit(body[i])
      THEN [ok |-> FALSE, value |-> 0]
      ELSE [ok |-> TRUE, value |-> IF body = s THEN DigitsValue(body) ELSE -DigitsValue(body)]

Returned(v) == [threw |-> "", value |-> v]
Threw(what_) == [threw |-> what_, value |-> << >>]

(* std::iota( begin( v ), end( v ), low ) *)
iota(v, low) == [i \in DOMAIN v |-> low + i - 1]

(* parseRange< T >( s ) *)
parseRange(s) ==
  LET tokens == CHOOSE t \in {split(s, "-")} : TRUE
  IN  IF Len(tokens) = 0 \/ Len(tokens) > 2 THEN Threw("std::runtime_error")
      ELSE IF Len(tokens) = 1 \/ tokens[1] = << >>
      THEN (IF lexical_cast(s).ok THEN Returned(<<lexical_cast(s).value>>)
            ELSE Threw("boost::bad_lexical_cast"))
      ELSE IF ~lexical_cast(tokens[1]).ok THEN Threw("boost::bad_lexical_cast")
      ELSE LET low == lexical_cast(tokens[1]).value
               high == lexical_cast(tokens[1]).value
               \* std::vector< T > rv{ high - low + 1 }: a braced list of one element
               fresh == <<high - low + 1>>
           IN  Returned(iota(fresh, low))

RangeInputs ==
  {Decimal(a) \o <<"-">> \o Decimal(b) : a, b \in 0..MaxValue}
    \cup {Decimal(a) : a \in (0 - MaxValue)..MaxValue}
    \cup {<<"-">>, <<"7", "-">>, <<"1", "-", "2", "-", "3">>, <<"3", "-", "x">>, <<"x", "-", "3">>}

RangeRestUnchanged == UNCHANGED <<excVars, violVars, tableVars, colorVars, termVars>>

InitRange ==
  /\ input \in RangeInputs
  /\ rv = << >>
  /\ pc = "call"
  /\ ExcIdle /\ ViolIdle /\ TableIdle /\ ConsoleIdle

(* The caller runs parseRange on its input. *)
CallParseRange ==
  /\ pc = "call"
  /\ rv' = parseRange(input)
  /\ pc' = IF parseRange(input).threw = "" THEN "returned" ELSE "threw"
  /\ UNCHANGED input /\ RangeRestUnchanged

(* The caller goes on to its next input. *)
NextInput ==
  /\ pc \in {"returned", "threw"}
  /\ input' \in RangeInputs
  /\ rv' = << >>
  /\ pc' = "call"
  /\ RangeRestUnchanged

NextRange == CallParseRange \/ NextInput

SpecRange == InitRange /\ [][NextRange]_vars

Ascending(a, b) == [i \in 1..(b - a + 1) |-> a + i - 1]

(* C9: for all integers a <= b, parseRange< T >( "a-b" ) returns the       *)
(* vector a, a+1, ..., b of length b - a + 1; "3-7" yields [3,4,5,6,7].    *)
C9_ParseRangeAscending ==
  \A a, b \in 0..MaxValue :
    (a <= b /\ pc # "call" /\ input = Decimal(a) \o <<"-">> \o Decimal(b))
      => rv = Returned(Ascending(a, b))

----------------------------------------------------------------------------
(* TableTest< function >::Cases::operator() (), in its C++17 and its C++20 *)
(* form.  A case is (comment, params, expected); `function` is the         *)
(* function under test, which returns a value for every params.            *)

MaxCases == 3

Comments == {"first", "second"}
Params == {"p", "q"}
Values == {"x", "y"}
Versions == {"C++17", "C++20"}

TestDescription == [comment : Comments, params : Params, expected : Values]

RECURSIVE SeqsUpTo(_, _)
SeqsUpTo(S, n) ==
  IF n = 0 THEN {<< >>}
  ELSE SeqsUpTo(S, n - 1) \cup {Append(q, x) : q \in {r \in SeqsUpTo(S, n - 1) : Len(r) = n - 1}, x \in S}

Line(kind, comment, computed, expected) ==
  [kind |-> kind, comment |-> comment, computed |-> computed, expected |-> expected]

(* printDebugging: the computed and the expected value, C++20 form only. *)
printDebugging(witness, expected) ==
  IF version = "C++20" THEN <<Line("computed/expected", "", witness, expected)>> ELSE << >>

TableRestUnchanged == UNCHANGED <<excVars, violVars, rangeVars, colorVars, termVars>>

(* Cases( initList ) : tests( initList ); int failureCount= 0; *)
InitTable ==
  /\ tests \in SeqsUpTo(TestDescription, MaxCases)
  /\ function \in [Params -> Values]
  /\ version \in Versions
  /\ idx = 0
  /\ failureCount = 0
  /\ out = << >>
  /\ calls = << >>
  /\ pc = "loop"
  /\ ExcIdle /\ ViolIdle /\ RangeIdle /\ ConsoleIdle

(* A faulty variant: the loop leaves the table at the first failure. *)
Cases_iteration_StopAtFailure ==
  /\ pc = "loop"
  /\ idx < Len(tests)
  /\ LET case == tests[idx + 1]
         witness == function[case.params]
         result == witness = case.expected
     IN  /\ calls' = Append(calls, case.params)
         /\ IF ~result
            THEN /\ out' = Append(out, Line("FAILURE", case.comment, "", ""))
                              \o printDebugging(witness, case.expected)
                 /\ failureCount' = failureCount + 1
                 /\ idx' = Len(tests)
            ELSE /\ out' = Append(out, Line("SUCCESS", case.comment, "", ""))
                 /\ UNCHANGED failureCount
                 /\ idx' = idx + 1
  /\ UNCHANGED <<tests, function, version, pc>> /\ TableRestUnchanged

(* One turn of `for( const auto &[ comment, params, expected ]: tests )`. *)
Cases_iteration ==
  /\ pc = "loop"
  /\ idx < Len(tests)
  /\ LET case == tests[idx + 1]
         witness == function[case.params]
         result == witness = case.expected
     IN  /\ calls' = Append(calls, case.params)
         /\ IF ~result
            THEN /\ out' = Append(out, Line("FAILURE", case.comment, "", ""))
                              \o printDebugging(witness, case.expected)
                 /\ failureCount' = failureCount + 1
            ELSE /\ out' = Append(out, Line("SUCCESS", case.comment, "", ""))
                 /\ UNCHANGED failureCount
  /\ idx' = idx + 1
  /\ UNCHANGED <<tests, function, version, pc>> /\ TableRestUnchanged

(* return failureCount; *)
Cases_return ==
  /\ pc = "loop"
  /\ idx = Len(tests)
  /\ pc' = "returned"
  /\ UNCHANGED tableVars /\ TableRestUnchanged

NextTable == Cases_iteration \/ Cases_return

SpecTable == InitTable /\ [][NextTable]_vars

(* The SUCCESS and FAILURE lines of the output, in order. *)
Verdicts == SelectSeq(out, LAMBDA l : l.kind \in {"SUCCESS", "FAILURE"})
Failing == {i \in DOMAIN tests : function[tests[i].params] # tests[i].expected}

(* C10: operator() calls the function once for every case of the table, in *)
(* table order and whatever failed before, prints exactly one SUCCESS or   *)
(* FAILURE line per case, and returns the number of cases whose computed   *)
(* result differs from the expected one (0 exactly when every case passes). *)
C10_EveryCaseRunAndCounted ==
  pc = "returned" =>
    /\ calls = [i \in DOMAIN tests |-> tests[i].params]
    /\ Len(Verdicts) = Len(tests)
    /\ \A i \in DOMAIN tests :
         /\ Verdicts[i].comment = tests[i].comment
         /\ Verdicts[i].kind = "FAILURE" <=> i \in Failing
    /\ failureCount = Cardinality(Failing)
    /\ failureCount = 0 <=> Failing = {}

C10_Witness ==
  /\ pc = "returned"
  /\ Len(tests) = MaxCases
  /\ failureCount = 2
  /\ 1 \in Failing /\ 2 \notin Failing
  /\ version = "C++20"

----------------------------------------------------------------------------
(* The console's color preference: the --color option, colorEnabled, the   *)
(* registered styles and the two stream operators that send SGR sequences. *)
(* colorState "" is the empty std::optional (the option was not passed);   *)
(* disableColorsEnv tells whether <APP>_DISABLE_COLOR_TEXT is set in the   *)
(* environment and stdoutIsTty what ::isatty( 1 ) answers; os is what the  *)
(* stream has received and sent the last stream insertion.                 *)

MaxOutput == 6

ColorStates == {"always", "never", "auto"}
StyleNames == {"warn", "note", "reset"}
SGRCodes == {"", "5"}
ColorMaps == UNION {[D -> SGRCodes] : D \in SUBSET StyleNames}
NoSend == << >>

(* bool colorEnabled(): getenv's pointer converts to true when the variable is set. *)
colorEnabled ==
  IF colorState = "" THEN disableColorsEnv
  ELSE IF colorState = "never" THEN FALSE
  ELSE IF colorState = "always" THEN TRUE
  ELSE stdoutIsTty

(* resetTextEffects() returns an SGR_String with an empty code. *)
resetTextEffects == ""

(* csi( os ) << style.code << 'm', csi writing the escape character. *)
sendSGR(stream, code) == stream \o <<"ESC", code, "m">>

ColorRestUnchanged == UNCHANGED <<excVars, violVars, rangeVars, tableVars, termVars, pc>>

(* The state once `init` has run: the option unset, the color variables    *)
(* read from <APP>_COLORS (any names, `reset` included, with any codes).   *)
InitColor ==
  /\ colorState = ""
  /\ disableColorsEnv \in BOOLEAN
  /\ stdoutIsTty \in BOOLEAN
  /\ colorVariables \in ColorMaps
  /\ os = << >>
  /\ sent = NoSend
  /\ ExcIdle /\ ViolIdle /\ RangeIdle /\ TableIdle /\ TermIdle /\ pc = "off"

(* --color=value: the option handler stores the value in colorState. *)
color_option(value) ==
  /\ colorState' = value
  /\ sent' = NoSend
  /\ UNCHANGED <<disableColorsEnv, stdoutIsTty, colorVariables, os>> /\ ColorRestUnchanged

(* createStyle( name, sgr ): `reset` throws, insert keeps an existing entry. *)
createStyle(name, sgr) ==
  /\ colorVariables' =
       IF name = "reset" \/ name \in DOMAIN colorVariables THEN colorVariables
       ELSE [n \in DOMAIN colorVariables \cup {name} |->
               IF n = name THEN sgr ELSE colorVariables[n]]
  /\ sent' = NoSend
  /\ UNCHANGED <<colorState, disableColorsEnv, stdoutIsTty, os>> /\ ColorRestUnchanged

(* os << style *)
StreamStyle(s) ==
  /\ Len(os) < MaxOutput
  /\ os' = IF colorEnabled /\ s \in DOMAIN colorVariables
           THEN sendSGR(os, colorVariables[s]) ELSE os
  /\ sent' = [op |-> "Style", style |-> s, wrote |-> SubSeq(os', Len(os) + 1, Len(os'))]
  /\ UNCHANGED <<colorState, disableColorsEnv, stdoutIsTty, colorVariables>> /\ ColorRestUnchanged

(* os << resetStyle: the condition is the function colorEnabled itself,    *)
(* which converts to true, and not a call of it.                           *)
StreamResetStyle ==
  /\ Len(os) < MaxOutput
  /\ os' = sendSGR(os, resetTextEffects)
  /\ sent' = [op |-> "resetStyle", style |-> "", wrote |-> SubSeq(os', Len(os) + 1, Len(os'))]
  /\ UNCHANGED <<colorState, disableColorsEnv, stdoutIsTty, colorVariables>> /\ ColorRestUnchanged

NextColor ==
  \/ \E value \in ColorStates : color_option(value)
  \/ \E name \in StyleNames, sgr \in SGRCodes : createStyle(name, sgr)
  \/ \E s \in StyleNames : StreamStyle(s)
  \/ StreamResetStyle

SpecColor == InitColor /\ [][NextColor]_vars

(* The last insertion was of a registered Style / wrote an SGR sequence. *)
SentRegisteredStyle == sent # NoSend /\ sent.op = "Style" /\ sent.style \in DOMAIN colorVariables
WroteSGR == sent # NoSend /\ sent.wrote # << >>

(* C11: when --color was not passed, <APP>_DISABLE_COLOR_TEXT is respected: *)
(* with the variable set, streaming a registered Style writes no SGR       *)
(* sequence; with the variable unset, it writes the style's sequence.      *)
C11_DisableEnvRespected ==
  (colorState = "" /\ SentRegisteredStyle) =>
    /\ disableColorsEnv => sent.wrote = << >>
    /\ ~disableColorsEnv => sent.wrote = <<"ESC", colorVariables[sent.style], "m">>

(* C12: when --color was passed its value decides alone, whatever the      *)
(* environment holds: under `never` no insertion writes an SGR sequence,   *)
(* under `always` every registered Style writes its sequence, and under    *)
(* `auto` color output happens exactly when stdout is a TTY.               *)
C12_OptionDecidesAlone ==
  (colorState # "" /\ sent # NoSend) =>
    /\ colorState = "never" => ~WroteSGR
    /\ (colorState = "always" /\ SentRegisteredStyle) => WroteSGR
    /\ (colorState = "auto" /\ SentRegisteredStyle) => (WroteSGR <=> stdoutIsTty)
    /\ (colorState = "auto" /\ ~stdoutIsTty) => ~WroteSGR

----------------------------------------------------------------------------
(* The console's terminal modes: Console::Impl's mode and modeStack, and   *)
(* the terminal's own settings (termios) behind the file descriptor.       *)
(* A termios value is abstracted to its VMIN entry and a number standing   *)
(* for all its other flags.  called records the last call, unpopped the    *)
(* recorded mode at the entry of every completed set call not yet popped.  *)

MaxDepth == 3
MaxFlags == 1

ConsoleMode == {"cooked", "raw", "noblock"}
Flags == 0..MaxFlags
Termios == [flags : Flags, vmin : {0, 1}]
NoCall == << >>
Call(op, threw, restores) == [op |-> op, threw |-> threw, restores |-> restores]

TermRestUnchanged == UNCHANGED <<excVars, violVars, rangeVars, tableVars, colorVars, pc>>

(* Console( fd ): mode= cooked, an empty modeStack; the terminal is in any state. *)
InitTerm ==
  /\ mode = "cooked"
  /\ modeStack = << >>
  /\ termios \in Termios
  /\ called = NoCall
  /\ unpopped = << >>
  /\ ExcIdle /\ ViolIdle /\ RangeIdle /\ TableIdle /\ ColorIdle /\ pc = "off"

(* setRawModeWithMin( fd, min ) and what its caller then does.  tcgetattr  *)
(* or tcsetattr may fail, and UnknownScreenError leaves the caller before  *)
(* it touched anything.  Otherwise the terminal receives `next`, whose     *)
(* flags were never initialised and hold any value, with VMIN set to min,  *)
(* and the caller pushes the settings read before together with its mode.  *)
setRawModeWithMin(op, min) ==
  \/ /\ called' = Call(op, TRUE, "")
     /\ UNCHANGED <<mode, modeStack, termios, unpopped>>
  \/ /\ Len(modeStack) < MaxDepth
     /\ \E next \in Flags : termios' = [flags |-> next, vmin |-> min]
     /\ modeStack' = Append(modeStack, <<termios, mode>>)
     /\ mode' = "raw"
     /\ unpopped' = Append(unpopped, mode)
     /\ called' = Call(op, FALSE, "")

(* Console::setRaw() *)
setRaw == setRawModeWithMin("setRaw", 1) /\ TermRestUnchanged

(* Console::setNoblock(): records raw as well. *)
setNoblock == setRawModeWithMin("setNoblock", 0) /\ TermRestUnchanged

(* A faulty variant: the pop always records cooked. *)
popTermMode_Cooked ==
  /\ modeStack # << >>
  /\ termios' \in {modeStack[Len(modeStack)][1], termios}
  /\ mode' = "cooked"
  /\ modeStack' = SubSeq(modeStack, 1, Len(modeStack) - 1)
  /\ unpopped' = SubSeq(unpopped, 1, Len(unpopped) - 1)
  /\ called' = Call("popTermMode", FALSE, unpopped[Len(unpopped)])
  /\ TermRestUnchanged

(* Console::popTermMode(), called on a stack that is not empty.  The       *)
(* result of tcsetattr is not looked at: the terminal takes the saved      *)
(* settings or keeps its own.                                              *)
popTermMode ==
  /\ modeStack # << >>
  /\ termios' \in {modeStack[Len(modeStack)][1], termios}
  /\ mode' = modeStack[Len(modeStack)][2]
  /\ modeStack' = SubSeq(modeStack, 1, Len(modeStack) - 1)
  /\ unpopped' = SubSeq(unpopped, 1, Len(unpopped) - 1)
  /\ called' = Call("popTermMode", FALSE, unpopped[Len(unpopped)])
  /\ TermRestUnchanged

NextTerm == setRaw \/ setNoblock \/ popTermMode

SpecTerm == InitTerm /\ [][NextTerm]_vars

(* C13: terminal modes form a stack.  After any calls of setRaw,           *)
(* setNoblock and popTermMode with no pop on an empty stack, a pop has set *)
(* the recorded mode back to what it was just before the most recent       *)
(* unpopped set call, the stack is as deep as there are unpopped set       *)
(* calls, and at depth 0 the recorded mode is cooked.                      *)
C13_ModesFormStack ==
  /\ Len(modeStack) = Len(unpopped)
  /\ \A i \in DOMAIN modeStack : modeStack[i][2] = unpopped[i]
  /\ (called # NoCall /\ called.op = "popTermMode") => mode = called.restores
  /\ modeStack = << >> => mode = "cooked"

C13_Witness ==
  /\ called # NoCall
  /\ called.op = "popTermMode"
  /\ called.restores = "raw"
  /\ mode = "raw"
  /\ Len(modeStack) = 1

====
